---- MODULE Spec2Model ----
(***************************************************************************)
(* attrs_strict: the runtime type validator of src/attrs_strict/           *)
(* _type_validation.py, as a state machine.                                *)
(*                                                                         *)
(* The state is one attrs class with two typed fields (the field whose     *)
(* validator is running and a sibling), the namespace resolve_types sees,  *)
(* and the position of the running type_validator._validator call.  The    *)
(* recursive matching engine (_validate_elements and its handlers) and the *)
(* compatibility matcher (_type_matching) are pure functions of the value  *)
(* and the type hint; they are operators, computed as the code computes    *)
(* them, exceptions included: a result is a record whose kind names the    *)
(* exception that left the call ("ok" when the call returned).             *)
(***************************************************************************)
EXTENDS Integers, Sequences, FiniteSets, TLC

VARIABLES
    fieldType,    \* attribute.type of the field under validation
    siblingType,  \* the .type of the other field of the same attrs class
    emptyOk,      \* the empty_ok argument of type_validator
    ns,           \* names the namespaces of typing.get_type_hints bind
    unionIsClass, \* interpreter: isinstance accepts typing.Union[...] of classes
    pc,           \* position of the running _validator call
    value,        \* the `field` argument of _validator (the new value)
    declared,     \* attribute.type when _validator was entered
    outcome,      \* how the last _validate_elements / _validator step ended
    nValidate,    \* _validate_elements calls made by _validator in this call
    nResolve,     \* resolve_types calls made by _validator in this call
    mActual,      \* matcher: the `actual` argument of _type_matching
    mExpected,    \* matcher: the `expected` argument of _type_matching
    mResult       \* matcher: what _type_matching(actual, expected) gave

vars == <<fieldType, siblingType, emptyOk, ns, unionIsClass, pc, value,
          declared, outcome, nValidate, nResolve, mActual, mExpected, mResult>>

-----------------------------------------------------------------------------
(* Bounds of the model.                                                     *)

\* longest list / tuple value, and most entries of a dict value
MaxLen == 2
\* most positional hints of a fixed Tuple[...] hint
MaxArity == 2

-----------------------------------------------------------------------------
(* Type hints (the objects of the typing module the code inspects).         *)
(* tag   : what kind of typing object it is                                 *)
(* name  : the class name, the ForwardRef's name, the NewType's or          *)
(*         TypeVar's __name__ (typing compares those two by identity; the   *)
(*         name stands for the identity)                                    *)
(* args  : __args__ of a subscripted generic, __constraints__ of a TypeVar, *)
(*         <<__supertype__>> of a NewType                                   *)
(* bound : <<__bound__>> of a TypeVar whose bound is not None, else <<>>    *)

Ty(tag, name, args, bound) ==
    [tag |-> tag, name |-> name, args |-> args, bound |-> bound]

NoneHint == Ty("None", "", <<>>, <<>>)
AnyT == Ty("Any", "", <<>>, <<>>)
UnionForm == Ty("typing.Union", "", <<>>, <<>>)
EllipsisT == Ty("Ellipsis", "", <<>>, <<>>)
SigEmpty == Ty("Class", "inspect._empty", <<>>, <<>>)
Class(n) == Ty("Class", n, <<>>, <<>>)
ForwardRef(n) == Ty("ForwardRef", n, <<>>, <<>>)
NewType(n, super) == Ty("NewType", n, <<super>>, <<>>)
TypeVarFree(n) == Ty("TypeVar", n, <<>>, <<>>)
TypeVarBound(n, b) == Ty("TypeVar", n, <<>>, <<b>>)
TypeVarOf(n, cs) == Ty("TypeVar", n, cs, <<>>)
UnionOf(as) == Ty("Union", "", as, <<>>)
ListOf(e) == Ty("List", "", <<e>>, <<>>)
DictOf(k, v) == Ty("Dict", "", <<k, v>>, <<>>)
TupleOf(as) == Ty("Tuple", "", as, <<>>)
CallableOf(as) == Ty("Callable", "", as, <<>>)

IntT == Class("int")
StrT == Class("str")
NoneTypeT == Class("NoneType")

\* the tags of subscripted generics: objects with __origin__ and __args__
GenericTags == {"Union", "List", "Dict", "Tuple", "Callable"}

\* type_.__origin__ of a subscripted generic
Origin(t) ==
    CASE t.tag = "Union" -> UnionForm
      [] t.tag = "List" -> Class("list")
      [] t.tag = "Dict" -> Class("dict")
      [] t.tag = "Tuple" -> Class("tuple")
      [] t.tag = "Callable" -> Class("Callable")

\* hasattr(type_, "__args__")
HasArgs(t) == t.tag \in GenericTags

is_newtype(t) == t.tag = "NewType"

is_typevar(t) == t.tag = "TypeVar"

SimilarTypes_Dict == {Class("dict")}
SimilarTypes_List == {Class("list"), Class("set")}
SimilarTypes_Tuple == {Class("tuple")}
SimilarTypes_Callable == {Class("Callable")}

\* _get_base_type: the origin of a subscripted generic, the supertype of a
\* NewType, and for a TypeVar its bound itself (not the bound's base type),
\* typing.Union when it has constraints, typing.Any when it has neither.
_get_base_type(t) ==
    IF t.tag \in GenericTags THEN Origin(t)
    ELSE IF is_newtype(t) THEN t.args[1]
    ELSE IF is_typevar(t) THEN
        IF t.bound # <<>> THEN t.bound[1]
        ELSE IF Len(t.args) # 0 THEN UnionForm
        ELSE AnyT
    ELSE t

-----------------------------------------------------------------------------
(* Values.  cat is the value's class; n its payload (the int, the length   *)
(* of the str); items the members of a list or tuple and the keys of a     *)
(* dict, vals the dict's values by position; sig the annotations           *)
(* inspect.signature reports for a function: the parameters', then the     *)
(* return annotation.                                                      *)

Val(cat, n, items, vals, sig) ==
    [cat |-> cat, n |-> n, items |-> items, vals |-> vals, sig |-> sig]

NoneV == Val("NoneType", 0, <<>>, <<>>, <<>>)
IntV(n) == Val("int", n, <<>>, <<>>, <<>>)
StrV(n) == Val("str", n, <<>>, <<>>, <<>>)
TrueV == Val("bool", 1, <<>>, <<>>, <<>>)
ListV(xs) == Val("list", 0, xs, <<>>, <<>>)
TupleV(xs) == Val("tuple", 0, xs, <<>>, <<>>)
DictV(ks, vs) == Val("dict", 0, ks, vs, <<>>)
FuncV(sig) == Val("function", 0, <<>>, <<>>, sig)

\* bool(value): None, 0, "" and the empty containers are falsy
Truthy(v) ==
    CASE v.cat = "NoneType" -> FALSE
      [] v.cat \in {"int", "bool", "str"} -> v.n # 0
      [] v.cat \in {"list", "tuple", "dict"} -> Len(v.items) # 0
      [] OTHER -> TRUE

\* isinstance(value, cls) for a class: bool is a subclass of int, and a
\* function is an instance of collections.abc.Callable
InstanceOfClass(v, cname) ==
    \/ v.cat = cname
    \/ v.cat = "bool" /\ cname = "int"
    \/ v.cat = "function" /\ cname = "Callable"

-----------------------------------------------------------------------------
(* Exceptions.  _error.py is not among the sources: the class hierarchy    *)
(* and add_container follow the specification's error taxonomy.            *)

\* issubclass(kind, BadTypeError): the kinds that carry container context
IsBadTypeError(kind) ==
    kind \in {"AttributeTypeError", "UnionLikeError", "TupleError"}

\* issubclass(kind, ValueError): BadTypeError derives from ValueError;
\* _StringAnnotationError (line 39) derives from Exception only
IsValueError(kind) == IsBadTypeError(kind)

\* error.add_container(container): appended to the error's own list
add_container(err, container) ==
    [err EXCEPT !.containers = Append(err.containers, container)]

\* What a call did: kind "ok" (it returned) or the exception that left it;
\* val and containers are the exception's value and container list; made
\* counts the BadTypeError objects constructed, calls the
\* _validate_elements invocations, since the outermost call began.
Res(kind, val, made, calls) ==
    [kind |-> kind, val |-> val, containers |-> <<>>,
     made |-> made, calls |-> calls]

Returned(made, calls) == Res("ok", NoneV, made, calls)

\* r, a call's result, as seen after `before` (an earlier part of the same
\* outer call) has run.
After(before, r) ==
    [r EXCEPT !.made = before.made + r.made, !.calls = before.calls + r.calls]

-----------------------------------------------------------------------------
(* isinstance(value, base_type), line 117.  A second argument that is not  *)
(* a class raises TypeError: a subscripted generic, a NewType, a TypeVar,  *)
(* Ellipsis.  typing.Union[...] raises too, except on interpreters whose   *)
(* Union checks issubclass(type(value), arg) for each arg in turn.         *)

IsClass(t) == t.tag = "Class"

IsInstance(v, base) ==
    IF IsClass(base) THEN
        (IF InstanceOfClass(v, base.name) THEN "True" ELSE "False")
    ELSE IF base.tag = "Union" /\ unionIsClass THEN
        LET n == Len(base.args)
            hit(i) == IsClass(base.args[i]) /\ InstanceOfClass(v, base.args[i].name)
            bad(i) == ~IsClass(base.args[i])
        IN  IF \E i \in 1..n : hit(i) /\ \A j \in 1..(i - 1) : ~bad(j)
            THEN "True"
            ELSE IF \E i \in 1..n : bad(i) THEN "TypeError"
            ELSE "False"
    ELSE "TypeError"

-----------------------------------------------------------------------------
(* The compatibility matcher.  Results: "True", "False", or the exception  *)
(* that left the call.                                                     *)

\* == on typing objects: a Union compares its arguments as a set, every
\* other object structurally (NewType and TypeVar by identity, the name)
RECURSIVE TypeEq(_, _)
TypeEq(a, b) ==
    IF a.tag = "Union" /\ b.tag = "Union" THEN
        /\ \A i \in 1..Len(a.args) : \E j \in 1..Len(b.args) :
                TypeEq(a.args[i], b.args[j])
        /\ \A j \in 1..Len(b.args) : \E i \in 1..Len(a.args) :
                TypeEq(a.args[i], b.args[j])
    ELSE
        /\ a.tag = b.tag /\ a.name = b.name
        /\ Len(a.args) = Len(b.args) /\ Len(a.bound) = Len(b.bound)
        /\ \A i \in 1..Len(a.args) : TypeEq(a.args[i], b.args[i])
        /\ \A i \in 1..Len(a.bound) : TypeEq(a.bound[i], b.bound[i])

\* itertools.zip_longest(xs, ys)[i]: the shorter side is filled with None
ZipLongest(xs, ys, i) ==
    <<IF i <= Len(xs) THEN xs[i] ELSE NoneHint,
      IF i <= Len(ys) THEN ys[i] ELSE NoneHint>>

MaxOf(a, b) == IF a >= b THEN a ELSE b

\* a matcher without the typing.Any test
MatchesAtOnce_equal(actual_type, expected_type) ==
    TypeEq(expected_type, actual_type)

\* line 168: expected_type == actual_type or expected_type == typing.Any
MatchesAtOnce(actual_type, expected_type) ==
    TypeEq(expected_type, actual_type) \/ TypeEq(expected_type, AnyT)

RECURSIVE _type_matching(_, _), AnyMatching(_, _, _), AllMatching(_, _, _)

\* any(_type_matching(actual, c) for c in expected_types), lines 175-178
AnyMatching(actual, expected_types, i) ==
    IF i > Len(expected_types) THEN "False"
    ELSE LET r == _type_matching(actual, expected_types[i])
         IN  IF r = "False" THEN AnyMatching(actual, expected_types, i + 1)
             ELSE r

\* all(_type_matching(a, e) for a, e in zip_longest(...)), lines 186-191
AllMatching(actual_args, expected_args, i) ==
    IF i > MaxOf(Len(actual_args), Len(expected_args)) THEN "True"
    ELSE LET p == ZipLongest(actual_args, expected_args, i)
             r == _type_matching(p[1], p[2])
         IN  IF r = "True" THEN AllMatching(actual_args, expected_args, i + 1)
             ELSE r

_type_matching(actual, expected) ==
    LET actual_type ==
            IF is_newtype(actual) \/ is_typevar(actual)
            THEN _get_base_type(actual) ELSE actual
        expected_type ==
            IF is_newtype(expected) \/ is_typevar(expected)
            THEN _get_base_type(expected) ELSE expected
        base_type == _get_base_type(expected)
    IN  IF MatchesAtOnce(actual_type, expected_type) THEN "True"
        ELSE IF base_type = UnionForm THEN
            AnyMatching(actual,
                        expected.args,  \* __constraints__ or __args__
                        1)
        ELSE IF base_type \in (SimilarTypes_Dict \cup SimilarTypes_List
                               \cup SimilarTypes_Tuple \cup SimilarTypes_Callable)
        THEN
            IF ~HasArgs(actual) THEN "AttributeError"   \* actual.__args__
            ELSE AllMatching(actual.args, expected.args, 1)
        ELSE "False"

-----------------------------------------------------------------------------
(* The recursive validator.  The `attribute` argument only feeds the error *)
(* messages and is left out; every operator returns a Res record.          *)

RECURSIVE _validate_elements(_, _), _handle_set_or_list(_, _),
          SetOrListLoop(_, _, _, _), _handle_dict(_, _), DictLoop(_, _, _, _, _),
          _handle_tuple(_, _), TupleLoop(_, _, _, _),
          _handle_union_like(_, _, _), UnionLoop(_, _, _, _)

\* lines 205-211: the first pair of zip_longest(callable_args, __args__)
\* that does not match raises CallableError; an exception inside
\* _type_matching leaves the call as it is
CallableLoop(callable_args, expected_args) ==
    LET n == MaxOf(Len(callable_args), Len(expected_args))
        m(i) == LET p == ZipLongest(callable_args, expected_args, i)
                IN  _type_matching(p[1], p[2])
        stops == {i \in 1..n : m(i) # "True"}
    IN  IF stops = {} THEN "ok"
        ELSE LET i == CHOOSE k \in stops : \A j \in stops : k <= j
             IN  IF m(i) = "False" THEN "CallableError" ELSE m(i)

_handle_callable(callable_, expected_type) ==
    IF ~HasArgs(expected_type) THEN Returned(0, 0)
    ELSE IF Len(expected_type.args) = 0 THEN Returned(0, 0)
    ELSE LET k == CallableLoop(callable_.sig, expected_type.args)
         IN  IF k = "ok" THEN Returned(0, 0)
             ELSE Res(k, callable_, IF k = "CallableError" THEN 1 ELSE 0, 0)

\* the body of `for element in container`, from element i on (lines 217-222)
SetOrListLoop(container, element_type, i, before) ==
    IF i > Len(container.items) THEN Returned(before.made, before.calls)
    ELSE LET r == After(before, _validate_elements(container.items[i], element_type))
         IN  IF r.kind = "ok"
             THEN SetOrListLoop(container, element_type, i + 1, r)
             ELSE IF IsBadTypeError(r.kind) THEN add_container(r, container)
             ELSE r

_handle_set_or_list(container, expected_type) ==
    IF ~HasArgs(expected_type) THEN Res("AttributeError", NoneV, 0, 0)
    ELSE IF Len(expected_type.args) # 1 THEN Res("ValueError", NoneV, 0, 0)
    ELSE SetOrListLoop(container, expected_type.args[1], 1, Returned(0, 0))

\* a dict handler that re-raises without recording the dict
DictLoop_unrecorded(container, key_type, value_type, i, before) ==
    IF i > Len(container.items) THEN Returned(before.made, before.calls)
    ELSE LET rk == After(before, _validate_elements(container.items[i], key_type))
             rv == IF rk.kind = "ok"
                   THEN After(rk, _validate_elements(container.vals[i], value_type))
                   ELSE rk
         IN  IF rv.kind = "ok"
             THEN DictLoop(container, key_type, value_type, i + 1, rv)
             ELSE rv

\* the body of `for key in container`, from key i on (lines 228-234)
DictLoop(container, key_type, value_type, i, before) ==
    IF i > Len(container.items) THEN Returned(before.made, before.calls)
    ELSE LET rk == After(before, _validate_elements(container.items[i], key_type))
             rv == IF rk.kind = "ok"
                   THEN After(rk, _validate_elements(container.vals[i], value_type))
                   ELSE rk
         IN  IF rv.kind = "ok"
             THEN DictLoop(container, key_type, value_type, i + 1, rv)
             ELSE IF IsBadTypeError(rv.kind) THEN add_container(rv, container)
             ELSE rv

_handle_dict(container, expected_type) ==
    IF ~HasArgs(expected_type) THEN Res("AttributeError", NoneV, 0, 0)
    ELSE IF Len(expected_type.args) # 2 THEN Res("ValueError", NoneV, 0, 0)
    ELSE DictLoop(container, expected_type.args[1], expected_type.args[2],
                  1, Returned(0, 0))

\* the body of `for element, expected_type in zip(...)`, from pair i on
\* (lines 246-251); zip ends with the shorter of the two
TupleLoop(container, tuple_types, i, before) ==
    IF i > Len(container.items) \/ i > Len(tuple_types)
    THEN Returned(before.made, before.calls)
    ELSE LET r == After(before, _validate_elements(container.items[i], tuple_types[i]))
         IN  IF r.kind = "ok" THEN TupleLoop(container, tuple_types, i + 1, r)
             ELSE IF IsBadTypeError(r.kind) THEN add_container(r, container)
             ELSE r

\* lines 239-241: Tuple[X, ...] stands for one X per element of the value
TupleTypes(container, args) ==
    IF Len(args) = 2 /\ args[2] = EllipsisT
    THEN [i \in 1..Len(container.items) |-> args[1]]
    ELSE args

\* an arity test that only catches a tuple that is too short
ArityMismatch_short(container, tuple_types) ==
    Len(container.items) < Len(tuple_types)

\* line 243: the arity test that precedes the element loop
ArityMismatch(container, tuple_types) ==
    Len(container.items) # Len(tuple_types)

_handle_tuple(container, expected_type) ==
    IF ~HasArgs(expected_type) THEN Res("AttributeError", NoneV, 0, 0)
    ELSE LET tuple_types == TupleTypes(container, expected_type.args)
         IN  IF ArityMismatch(container, tuple_types)
             THEN Res("TupleError", container, 1, 0)
             ELSE TupleLoop(container, tuple_types, 1, Returned(0, 0))

\* the body of `for expected_type in expected_types`, from alternative i on
\* (lines 262-268): only a ValueError makes the loop go on
UnionLoop(val, expected_types, i, before) ==
    IF i > Len(expected_types)
    THEN Res("UnionLikeError", val, before.made + 1, before.calls)
    ELSE LET r == After(before, _validate_elements(val, expected_types[i]))
         IN  IF r.kind = "ok" THEN Returned(r.made, r.calls)
             ELSE IF IsValueError(r.kind)
             THEN UnionLoop(val, expected_types, i + 1, r)
             ELSE r

\* a short circuit that looks at the first alternative only
NoneShortCircuit_first(val, expected_types) ==
    val = NoneV /\ expected_types[1] = NoneTypeT

\* lines 255-260: None is accepted when NoneType is among the alternatives
NoneShortCircuit(val, expected_types) ==
    /\ val = NoneV
    /\ \E i \in 1..Len(expected_types) : expected_types[i] = NoneTypeT

_handle_union_like(val, union_like_type, expected_types) ==
    IF NoneShortCircuit(val, expected_types) THEN Returned(0, 0)
    ELSE UnionLoop(val, expected_types, 1, Returned(0, 0))

\* lines 122-136: the handler of the base type, if it has one
Dispatch(val, expected_type, base_type) ==
    IF base_type = UnionForm THEN
        _handle_union_like(val, expected_type,
                           expected_type.args)  \* __constraints__ or __args__
    ELSE IF base_type \in SimilarTypes_List THEN
        _handle_set_or_list(val, expected_type)
    ELSE IF base_type \in SimilarTypes_Dict THEN
        _handle_dict(val, expected_type)
    ELSE IF base_type \in SimilarTypes_Tuple THEN
        _handle_tuple(val, expected_type)
    ELSE IF base_type \in SimilarTypes_Callable THEN
        _handle_callable(val, expected_type)
    ELSE Returned(0, 0)

\* a wildcard test on the hint itself instead of its base type
AcceptsAnything_literal(expected_type) ==
    expected_type = NoneHint \/ expected_type = AnyT

\* lines 104-110: no hint, or a base type of typing.Any, accepts the value
AcceptsAnything(expected_type) ==
    expected_type = NoneHint \/ _get_base_type(expected_type) = AnyT

_validate_elements(val, expected_type) ==
    LET base_type == _get_base_type(expected_type)
        entered == Returned(0, 1)
    IN  IF AcceptsAnything(expected_type) THEN entered
        ELSE IF base_type.tag = "ForwardRef"
        THEN Res("_StringAnnotationError", NoneV, 0, 1)
        ELSE IF base_type # UnionForm /\ IsInstance(val, base_type) = "TypeError"
        THEN Res("TypeError", NoneV, 0, 1)
        ELSE IF base_type # UnionForm /\ IsInstance(val, base_type) = "False"
        THEN Res("AttributeTypeError", val, 1, 1)
        ELSE After(entered, Dispatch(val, expected_type, base_type))

-----------------------------------------------------------------------------
(* resolve_types, lines 60-77.  typing.get_type_hints evaluates every      *)
(* forward reference of every annotated field against the namespaces: it   *)
(* descends into the arguments of subscripted generics, and leaves a       *)
(* TypeVar or NewType (and the references inside it) as it is.  A name the *)
(* namespaces do not bind raises NameError.  A name that is bound is bound *)
(* to the class of that name.                                              *)

RECURSIVE Unbound(_, _), EvalType(_)

\* get_type_hints would raise NameError on this hint under namespace names
Unbound(t, names) ==
    IF t.tag = "ForwardRef" THEN t.name \notin names
    ELSE IF t.tag \in GenericTags
    THEN \E i \in 1..Len(t.args) : Unbound(t.args[i], names)
    ELSE FALSE

EvalType(t) ==
    IF t.tag = "ForwardRef" THEN Class(t.name)
    ELSE IF t.tag \in GenericTags
    THEN [t EXCEPT !.args = [i \in 1..Len(t.args) |-> EvalType(t.args[i])]]
    ELSE t

\* the hint this validation would still find unresolved after resolve_types
RECURSIVE MentionsForwardRef(_)
MentionsForwardRef(t) ==
    \/ t.tag = "ForwardRef"
    \/ \E i \in 1..Len(t.args) : MentionsForwardRef(t.args[i])
    \/ \E i \in 1..Len(t.bound) : MentionsForwardRef(t.bound[i])

-----------------------------------------------------------------------------
(* The hints and values the model draws from.                               *)

Names == {"X", "Y"}

Leaves == {AnyT, IntT, StrT, NoneTypeT, ForwardRef("X"), TypeVarFree("T")}
Elems == {IntT, StrT}
TupleElems == {IntT, StrT, ForwardRef("X")}

\* the sequences over S of length lo..hi
SeqsOf(S, lo, hi) == UNION {[1..n -> S] : n \in lo..hi}

FixedTuples == {TupleOf(as) : as \in SeqsOf(TupleElems, 1, MaxArity)}
VariadicTuples == {TupleOf(<<e, EllipsisT>>) : e \in Leaves}
Lists == {ListOf(e) : e \in Leaves}
Dicts == {DictOf(k, v) : k \in Elems, v \in Leaves}

\* alternatives of a Union and constraints of a TypeVar: typing keeps at
\* least two, all different, and flattens Any and nested Unions away
Alternatives ==
    {IntT, StrT, NoneTypeT, ForwardRef("X"), ListOf(IntT), TupleOf(<<IntT>>)}
Pairs(S) == {as \in [1..2 -> S] : as[1] # as[2]}
Unions == {UnionOf(as) : as \in Pairs(Alternatives \cup {TypeVarBound("B", StrT)})}
Constrained == {TypeVarOf("T", cs) : cs \in Pairs(Alternatives)}

Aliases ==
    {NewType("N", s) : s \in {IntT, StrT, ListOf(IntT), NewType("M", IntT)}}
Bounds ==
    {IntT, StrT, NoneTypeT, ForwardRef("X"),
     ListOf(IntT), DictOf(StrT, IntT), TupleOf(<<IntT>>),
     TupleOf(<<IntT, EllipsisT>>), UnionOf(<<IntT, StrT>>),
     UnionOf(<<IntT, NoneTypeT>>), UnionOf(<<StrT, ListOf(IntT)>>),
     NewType("N", IntT)}
Bounded == {TypeVarBound("T", b) : b \in Bounds}

\* one container around an element hint
Wraps(e) ==
    {ListOf(e), DictOf(StrT, e), DictOf(e, StrT), TupleOf(<<e>>),
     TupleOf(<<e, EllipsisT>>)}
\* containers two deep, and containers of union-likes and of wildcards
Nested == UNION {Wraps(inner) : inner \in UNION {Wraps(e) : e \in Elems}}
WrappedUnionLikes ==
    UNION {Wraps(u) : u \in {UnionOf(<<NoneTypeT, ForwardRef("X")>>),
                             UnionOf(<<IntT, NoneTypeT>>),
                             TypeVarOf("T", <<StrT, NoneTypeT>>),
                             TypeVarBound("T", IntT)}}
Callables ==
    {CallableOf(<<>>), CallableOf(<<IntT>>), CallableOf(<<IntT, StrT>>),
     CallableOf(<<AnyT, IntT>>), CallableOf(<<ListOf(IntT), IntT>>)}

Hints ==
    {NoneHint} \cup Leaves \cup FixedTuples \cup VariadicTuples \cup Lists
    \cup Dicts \cup Unions \cup Constrained \cup Aliases \cup Bounded
    \cup Nested \cup WrappedUnionLikes \cup Callables

\* an instance of the class a forward reference names
ObjV(n) == Val(n, 1, <<>>, <<>>, <<>>)

Atoms == {NoneV, IntV(0), IntV(1), StrV(0), StrV(1), TrueV, ObjV("X")}
Members == {IntV(1), StrV(1), NoneV}
Keys == {StrV(1), IntV(1)}

\* dict values: the keys of a dict are all different
DictsOver(V, lo, hi) ==
    {DictV(ks, vs) : <<ks, vs>> \in UNION {
        {ks \in [1..n -> Keys] : \A i, j \in 1..n : ks[i] = ks[j] => i = j}
        \X [1..n -> V] : n \in lo..hi}}

ContainersOver(V, lo, hi) ==
    {ListV(xs) : xs \in SeqsOf(V, lo, hi)}
    \cup {TupleV(xs) : xs \in SeqsOf(V, lo, hi)}
    \cup DictsOver(V, lo, hi)

FlatValues ==
    Atoms \cup {ListV(xs) : xs \in SeqsOf(Members, 0, MaxLen)}
    \cup {TupleV(xs) : xs \in SeqsOf(Keys, 0, MaxLen)}
    \cup DictsOver(Keys, 0, MaxLen)

\* a container holding one container of ints and strs
InnerValues == ContainersOver(Keys, 1, MaxLen)
NestedValues ==
    {ListV(<<c>>) : c \in InnerValues} \cup {TupleV(<<c>>) : c \in InnerValues}
    \cup {DictV(<<StrV(1)>>, <<c>>) : c \in InnerValues}
    \cup {ListV(<<ListV(<<IntV(1)>>), c>>) : c \in InnerValues}

Functions ==
    {FuncV(sig) : sig \in {<<SigEmpty>>, <<IntT>>, <<IntT, StrT>>,
                           <<StrT, StrT>>, <<AnyT, IntT>>, <<IntT, IntT, StrT>>,
                           <<ListOf(IntT), IntT>>, <<TupleOf(<<IntT>>), IntT>>}}

\* the values the host assigns to a field of hint t
ValuesFor(t) ==
    FlatValues
    \cup (IF t \in Nested THEN NestedValues ELSE {})
    \cup (IF t \in Callables THEN Functions ELSE {})

-----------------------------------------------------------------------------
(* type_validator(empty_ok)._validator(instance, attribute, field),        *)
(* lines 90-98, one action per step.                                       *)

NoOutcome == Res("none", NoneV, 0, 0)

\* an emptiness test that only rejects None
EmptyRejected_none(empty_ok, field) == ~empty_ok /\ field = NoneV

\* line 91: not empty_ok and not field
EmptyRejected(empty_ok, field) == ~empty_ok /\ ~Truthy(field)

\* lines 94-96: where the call goes after the first _validate_elements
AfterTry(r) ==
    IF r.kind = "ok" THEN "returned"
    ELSE IF r.kind = "_StringAnnotationError" THEN "except"
    ELSE "raised"

\* a retry placed inside the try, so that it is caught and resolved again
AfterRetry_caught(r) == AfterTry(r)

\* line 98: the second _validate_elements is outside the try
AfterRetry(r) == IF r.kind = "ok" THEN "returned" ELSE "raised"

\* the host assigns v to the field: _validator is entered
Call(v) ==
    /\ pc = "idle"
    /\ pc' = "check"
    /\ value' = v
    /\ declared' = fieldType
    /\ outcome' = NoOutcome
    /\ nValidate' = 0
    /\ nResolve' = 0
    /\ UNCHANGED <<fieldType, siblingType, emptyOk, ns, unionIsClass,
                   mActual, mExpected, mResult>>

\* lines 91-92
EmptyCheck ==
    /\ pc = "check"
    /\ IF EmptyRejected(emptyOk, value)
       THEN /\ pc' = "raised"
            /\ outcome' = Res("EmptyError", value, 1, 0)
       ELSE /\ pc' = "try"
            /\ outcome' = outcome
    /\ UNCHANGED <<fieldType, siblingType, emptyOk, ns, unionIsClass, value,
                   declared, nValidate, nResolve, mActual, mExpected, mResult>>

\* lines 94-96
TryValidate ==
    /\ pc = "try"
    /\ LET r == _validate_elements(value, fieldType)
       IN  /\ outcome' = r
           /\ pc' = AfterTry(r)
    /\ nValidate' = nValidate + 1
    /\ UNCHANGED <<fieldType, siblingType, emptyOk, ns, unionIsClass, value,
                   declared, nResolve, mActual, mExpected, mResult>>

\* line 97: resolve_types(type(instance)) rewrites the type of every field
\* of the class, or raises NameError and rewrites none
ResolveTypes ==
    /\ pc = "except"
    /\ nResolve' = nResolve + 1
    /\ IF Unbound(fieldType, ns) \/ Unbound(siblingType, ns)
       THEN /\ pc' = "raised"
            /\ outcome' = Res("NameError", NoneV, 0, 0)
            /\ UNCHANGED <<fieldType, siblingType>>
       ELSE /\ pc' = "retry"
            /\ outcome' = outcome
            /\ fieldType' = EvalType(fieldType)
            /\ siblingType' = EvalType(siblingType)
    /\ UNCHANGED <<emptyOk, ns, unionIsClass, value, declared, nValidate,
                   mActual, mExpected, mResult>>

\* line 98
RetryValidate ==
    /\ pc = "retry"
    /\ LET r == _validate_elements(value, fieldType)
       IN  /\ outcome' = r
           /\ pc' = AfterRetry(r)
    /\ nValidate' = nValidate + 1
    /\ UNCHANGED <<fieldType, siblingType, emptyOk, ns, unionIsClass, value,
                   declared, nResolve, mActual, mExpected, mResult>>

\* _validator has returned or raised; the host goes on
Finish ==
    /\ pc \in {"returned", "raised"}
    /\ pc' = "idle"
    /\ value' = NoneV
    /\ declared' = fieldType
    /\ outcome' = NoOutcome
    /\ nValidate' = 0
    /\ nResolve' = 0
    /\ UNCHANGED <<fieldType, siblingType, emptyOk, ns, unionIsClass,
                   mActual, mExpected, mResult>>

\* a class whose field has hint fieldType; the namespace and the sibling
\* field matter only to a class with forward references, the interpreter's
\* isinstance only to a hint whose base type is a typing.Union[...]
Init ==
    /\ fieldType \in Hints
    /\ siblingType \in
          (IF MentionsForwardRef(fieldType)
           THEN {IntT, ForwardRef("Y")} ELSE {IntT})
    /\ ns \in (IF MentionsForwardRef(fieldType) THEN SUBSET Names ELSE {Names})
    /\ unionIsClass \in
          (IF _get_base_type(fieldType).tag = "Union" THEN BOOLEAN ELSE {FALSE})
    /\ emptyOk \in BOOLEAN
    /\ pc = "idle"
    /\ value = NoneV
    /\ declared = fieldType
    /\ outcome = NoOutcome
    /\ nValidate = 0
    /\ nResolve = 0
    /\ mActual = NoneHint
    /\ mExpected = NoneHint
    /\ mResult = "none"

Next ==
    \/ \E v \in ValuesFor(fieldType) : Call(v)
    \/ EmptyCheck
    \/ TryValidate
    \/ ResolveTypes
    \/ RetryValidate
    \/ Finish

Spec == Init /\ [][Next]_vars

-----------------------------------------------------------------------------
(* The compatibility matcher on its own: _type_matching applied to a pair  *)
(* of hints, as _handle_callable applies it to an annotation of the        *)
(* callable's signature and a declared parameter or return hint.           *)

MatchHints ==
    {AnyT, IntT, StrT, NoneTypeT, SigEmpty,
     TypeVarFree("T"), TypeVarBound("B", IntT), TypeVarBound("L", ListOf(IntT)),
     TypeVarOf("C", <<IntT, StrT>>), TypeVarOf("D", <<StrT, NoneTypeT>>),
     NewType("N", IntT), NewType("M", NewType("N", IntT)),
     NewType("A", AnyT),
     UnionOf(<<IntT, StrT>>), UnionOf(<<StrT, IntT>>),
     ListOf(IntT), ListOf(StrT), ListOf(AnyT),
     TupleOf(<<IntT>>), TupleOf(<<IntT, AnyT>>), TupleOf(<<IntT, StrT>>),
     DictOf(StrT, IntT), DictOf(StrT, AnyT),
     CallableOf(<<IntT, StrT>>), CallableOf(<<IntT>>)}

\* _type_matching(mActual, mExpected) is called
Match ==
    /\ pc = "match"
    /\ mResult = "none"
    /\ mResult' = _type_matching(mActual, mExpected)
    /\ UNCHANGED <<fieldType, siblingType, emptyOk, ns, unionIsClass, pc,
                   value, declared, outcome, nValidate, nResolve,
                   mActual, mExpected>>

InitMatch ==
    /\ mActual \in MatchHints
    /\ mExpected \in MatchHints
    /\ mResult = "none"
    /\ pc = "match"
    /\ fieldType = NoneHint
    /\ siblingType = NoneHint
    /\ declared = NoneHint
    /\ emptyOk = TRUE
    /\ ns = {}
    /\ unionIsClass = FALSE
    /\ value = NoneV
    /\ outcome = NoOutcome
    /\ nValidate = 0
    /\ nResolve = 0

NextMatch == Match

SpecMatch == InitMatch /\ [][NextMatch]_vars

-----------------------------------------------------------------------------
(* Properties.                                                              *)

\* the first _validate_elements of the running call has just ended
FirstDone == nValidate = 1 /\ nResolve = 0 /\ pc \in {"returned", "raised", "except"}

\* the running _validator call has ended
CallDone == pc \in {"returned", "raised"}

Succeeds(v, t) == _validate_elements(v, t).kind = "ok"

\* a whole _validator call on v with hint t (empty_ok = True) returns
CallSucceeds(v, t) ==
    \/ Succeeds(v, t)
    \/ /\ _validate_elements(v, t).kind = "_StringAnnotationError"
       /\ ~Unbound(t, ns) /\ ~Unbound(siblingType, ns)
       /\ Succeeds(v, EvalType(t))

IsBounded(t) == is_typevar(t) /\ t.bound # <<>>
IsConstrained(t) == is_typevar(t) /\ t.bound = <<>> /\ Len(t.args) # 0
IsUnionLike(t) == t.tag = "Union" \/ IsConstrained(t)
ListsNoneType(t) == \E i \in 1..Len(t.args) : t.args[i] = NoneTypeT
IsWildcard(t) == t = NoneHint \/ t = AnyT \/ (is_typevar(t) /\ t.bound = <<>> /\ t.args = <<>>)
IsContainerVal(v) == v.cat \in {"list", "tuple", "dict"}
\* the members of a container value: elements, keys and dict values
Direct(v) == {v.items[i] : i \in 1..Len(v.items)} \cup {v.vals[i] : i \in 1..Len(v.vals)}
Reversed(xs) == [i \in 1..Len(xs) |-> xs[Len(xs) + 1 - i]]
IsFixedTuple(t) == t.tag = "Tuple" /\ ~(Len(t.args) = 2 /\ t.args[2] = EllipsisT)

\* C1: validating a value against a TypeVar whose bound is B succeeds if and
\* only if validating it against B itself succeeds, whatever B is (a class,
\* a container hint, a union, an alias).
C1_BoundIsTransparent ==
    (FirstDone /\ IsBounded(declared)) =>
        (outcome.kind = "ok" <=> Succeeds(value, declared.bound[1]))

\* C2: a call on a field whose hint is a TypeVar with constraints C1..Cn
\* returns if and only if the value satisfies at least one Ci, raises
\* UnionLikeError otherwise, and would end the same way (return or raise)
\* with the constraints in the opposite order.
C2_ConstraintsInAnyOrder ==
    (CallDone /\ nValidate >= 1 /\ IsConstrained(declared)) =>
        /\ pc = "returned" <=>
              \E i \in 1..Len(declared.args) : CallSucceeds(value, declared.args[i])
        /\ pc = "raised" => outcome.kind = "UnionLikeError"
        /\ pc = "returned" <=>
              CallSucceeds(value, [declared EXCEPT !.args = Reversed(declared.args)])

\* C3: when the value that fails is a member of a container that is itself
\* a member of the validated container, the error that reaches the caller
\* is the one object constructed for the failure, and its containers are
\* the inner container, then the outer one.
C3_TwoContainersInnermostFirst ==
    (/\ pc = "raised" /\ nValidate >= 1
     /\ IsBadTypeError(outcome.kind)
     /\ IsContainerVal(value)
     /\ outcome.val \notin ({value} \cup Direct(value))) =>
        /\ outcome.made = 1
        /\ \E c \in Direct(value) :
              /\ IsContainerVal(c)
              /\ outcome.val \in Direct(c)
              /\ outcome.containers = <<c, value>>

C3_Witness ==
    /\ pc = "raised"
    /\ declared = DictOf(StrT, ListOf(IntT))
    /\ value = DictV(<<StrV(1)>>, <<ListV(<<IntV(1), StrV(1)>>)>>)
    /\ outcome.kind = "AttributeTypeError"
    /\ outcome.val = StrV(1)
    /\ outcome.containers = <<ListV(<<IntV(1), StrV(1)>>), value>>

\* C4: within one _validator call resolve_types runs at most once, and only
\* after the first validation met an unresolved forward reference; the
\* validation is retried exactly once after it, and a forward reference met
\* by the retry ends the call with that exception, with no second
\* resolution.
C4_ResolvesAtMostOnce ==
    /\ nResolve <= 1
    /\ nValidate <= 2
    /\ nValidate = 2 => nResolve = 1
    /\ pc = "except" =>
          nResolve = 0 /\ nValidate = 1 /\ outcome.kind = "_StringAnnotationError"
    /\ pc = "retry" => nResolve = 1 /\ nValidate = 1
    /\ (nResolve = 1 /\ CallDone /\ outcome.kind # "NameError") => nValidate = 2
    /\ (CallDone /\ outcome.kind = "_StringAnnotationError") =>
          pc = "raised" /\ nResolve = 1 /\ nValidate = 2

C4_Witness ==
    /\ pc = "raised"
    /\ outcome.kind = "_StringAnnotationError"
    /\ nResolve = 1
    /\ nValidate = 2

\* C5: a tuple whose length differs from the number of hints of a fixed
\* Tuple[...] hint is rejected with TupleError, raised by the top call
\* itself before any member is validated.
C5_ArityBeforeElements ==
    (/\ FirstDone
     /\ IsFixedTuple(declared)
     /\ value.cat = "tuple"
     /\ Len(value.items) # Len(declared.args)) =>
        /\ pc = "raised"
        /\ outcome.kind = "TupleError"
        /\ outcome.calls = 1
        /\ outcome.made = 1
        /\ outcome.containers = <<>>

C5_Witness ==
    /\ pc = "raised"
    /\ declared = TupleOf(<<IntT>>)
    /\ value = TupleV(<<IntV(1), IntV(1)>>)
    /\ outcome.kind = "TupleError"

\* C6: with empty_ok false a falsy value is rejected with EmptyError, and
\* no _validate_elements and no resolve_types call has been made, whatever
\* the field's hint is.
C6_EmptyRejectedFirst ==
    (~emptyOk /\ ~Truthy(value) /\ pc \notin {"idle", "check"}) =>
        /\ pc = "raised"
        /\ outcome.kind = "EmptyError"
        /\ nValidate = 0
        /\ nResolve = 0
        /\ fieldType = declared

C6_Witness ==
    /\ pc = "raised"
    /\ ~emptyOk
    /\ declared = ListOf(ForwardRef("X"))
    /\ value = ListV(<<>>)
    /\ outcome.kind = "EmptyError"

\* C7: None validated against a Union, or a TypeVar with constraints, that
\* lists NoneType succeeds in the one call made on it: no alternative is
\* validated and nothing is resolved.  The same holds for each None inside
\* a list of such a hint.
C7_NoneShortCircuits ==
    /\ (/\ FirstDone /\ IsUnionLike(declared) /\ ListsNoneType(declared)
        /\ value = NoneV) =>
            /\ pc = "returned"
            /\ outcome.calls = 1
            /\ outcome.made = 0
    /\ (/\ FirstDone /\ declared.tag = "List"
        /\ IsUnionLike(declared.args[1]) /\ ListsNoneType(declared.args[1])
        /\ value.cat = "list"
        /\ \A i \in 1..Len(value.items) : value.items[i] = NoneV) =>
            /\ pc = "returned"
            /\ outcome.calls = 1 + Len(value.items)

C7_Witness ==
    /\ pc = "returned"
    /\ declared = UnionOf(<<ForwardRef("X"), NoneTypeT>>)
    /\ value = NoneV
    /\ nValidate = 1

\* C8: every value is accepted by a wildcard: typing.Any, a field with no
\* hint, a TypeVar with neither bound nor constraints; and a list, a
\* variadic tuple or a dict whose member hint is a wildcard accepts every
\* list, tuple or dict (whose keys match).
C8_WildcardAccepts ==
    /\ (FirstDone /\ IsWildcard(declared)) =>
            pc = "returned" /\ outcome.calls = 1
    /\ (/\ FirstDone /\ declared.tag = "List" /\ IsWildcard(declared.args[1])
        /\ value.cat = "list") => pc = "returned"
    /\ (/\ FirstDone /\ declared.tag = "Tuple" /\ ~IsFixedTuple(declared)
        /\ IsWildcard(declared.args[1]) /\ value.cat = "tuple") => pc = "returned"
    /\ (/\ FirstDone /\ declared.tag = "Dict" /\ IsWildcard(declared.args[2])
        /\ value.cat = "dict"
        /\ \A i \in 1..Len(value.items) : Succeeds(value.items[i], declared.args[1]))
            => pc = "returned"

C8_Witness ==
    /\ pc = "returned"
    /\ declared = ListOf(TypeVarFree("T"))
    /\ value = ListV(<<IntV(1), StrV(1)>>)

-----------------------------------------------------------------------------
(* Properties of the compatibility matcher.                                 *)

\* what lines 160-166 compare: one NewType or TypeVar layer removed
Unwrap1(t) == IF is_newtype(t) \/ is_typevar(t) THEN _get_base_type(t) ELSE t

ContainerTags == {"List", "Dict", "Tuple", "Callable"}

\* C9 as stated: the matcher answers true whenever the two hints are equal
\* once the alias or generic parameter is unwrapped, or either of the two,
\* actual or expected, is the wildcard.
C9_EitherSideWildcard ==
    (/\ mResult # "none"
     /\ \/ TypeEq(Unwrap1(mActual), Unwrap1(mExpected))
        \/ Unwrap1(mActual) = AnyT
        \/ Unwrap1(mExpected) = AnyT) => mResult = "True"

\* C9, amended: the matcher answers true whenever the two hints are equal
\* once one alias or generic-parameter layer is removed from each, or the
\* expected hint, so unwrapped, is the wildcard.
C9_ExpectedSideWildcard ==
    (/\ mResult # "none"
     /\ \/ TypeEq(Unwrap1(mActual), Unwrap1(mExpected))
        \/ Unwrap1(mExpected) = AnyT) => mResult = "True"

C9_Witness ==
    /\ mResult = "True"
    /\ mActual = StrT
    /\ mExpected = TypeVarFree("T")

\* C10: when the expected hint is a container hint different from the
\* actual one, the matcher answers true only if the actual hint is of the
\* same container category, has as many arguments, and every pair of
\* arguments at the same position matches.
C10_SameCategorySameArity ==
    LET a == Unwrap1(mActual)
        e == Unwrap1(mExpected)
    IN  (/\ mResult = "True"
         /\ e.tag \in ContainerTags
         /\ ~TypeEq(a, e)) =>
            /\ a.tag = e.tag
            /\ Len(a.args) = Len(e.args)
            /\ \A i \in 1..Len(e.args) :
                  _type_matching(a.args[i], e.args[i]) = "True"

====
